---- MODULE Spec2Model ----
(***************************************************************************)
(* A state-machine model of translate.py: the main loop over BOOKS,       *)
(* process_book (chapter-name phase, chapter phase with resume),          *)
(* process_hadiths (record retry loop with model rotation),               *)
(* translate_chapter_name, fetch_book_data and the SIGINT handler.        *)
(***************************************************************************)
EXTENDS Integers, Sequences, FiniteSets, TLC

\* ---------------------------------------------------------------- bounds
\* Number of entries of BOOKS that the model runs through.
MaxBooks == 2
\* Hadith records per fetched book (ids 1..MaxId).
MaxId == 2
\* Saturation point of the per-record call counter (a history variable).
MaxCalls == 6
\* Chapters of a fetched book (ids 1..NumChapters, in this order).
NumChapters == 2

\* ------------------------------------------------------ program constants
\* len(models) in process_book.
NumModels == 8
\* The record retry loop: while translated_hadith is None and attempts < 5.
RecordAttempts == 5
\* translate_chapter_name(attempts_limit = 20).
AttemptsLimit == 20
\* if resource_exhausted_count >= 4: rotate.
RotateAt == 4

\* A JSON list file on disk: missing, or holding a list.
NoFile == [exists |-> FALSE, entries |-> <<>>]
ListFile(entries) == [exists |-> TRUE, entries |-> entries]

\* chapter_names.json on disk: missing, or {"id", "metadata", "chapters"}.
NoNamesFile == [exists |-> FALSE, id |-> 0, chapters |-> <<>>]
NamesFile(id, chapters) == [exists |-> TRUE, id |-> id, chapters |-> chapters]

\* ------------------------------------------------------------ pure helpers
\* [h for h in all_hadiths_data if h["chapterId"] == chapter_id]
InChapter(hadiths, chapter_id) ==
    SelectSeq(hadiths, LAMBDA h : h.chapterId = chapter_id)

\* {h["id"] for h in existing_hadiths}
IdsOf(entries) == {entries[k].id : k \in 1..Len(entries)}

\* [h for h in chapter_hadiths if h["id"] not in existing_hadith_ids]
MissingHadiths_NoFilter(chapter_hadiths, existing_hadith_ids) == chapter_hadiths
MissingHadiths(chapter_hadiths, existing_hadith_ids) ==
    SelectSeq(chapter_hadiths, LAMBDA h : h.id \notin existing_hadith_ids)

\* list.sort(key=lambda x: int(x["id"])): a stable ascending sort. The ids of
\* the model are JSON integers, for which int(id) is id.
RECURSIVE InsertByIntId(_, _)
InsertByIntId(e, s) ==
    IF s = <<>> THEN <<e>>
    ELSE IF Head(s).id <= e.id
         THEN <<Head(s)>> \o InsertByIntId(e, Tail(s))
         ELSE <<e>> \o s

RECURSIVE SortByIntId(_)
SortByIntId(s) ==
    IF s = <<>> THEN <<>>
    ELSE InsertByIntId(s[Len(s)], SortByIntId(SubSeq(s, 1, Len(s) - 1)))

\* existing_hadiths.extend(translated); existing_hadiths.sort(...)
MergeIntoExisting_NoSort(existing, translated) == existing \o translated
MergeIntoExisting(existing, translated) == SortByIntId(existing \o translated)

\* The quota branch: (model_index, resource_exhausted_count) after one
\* "429 RESOURCE_EXHAUSTED" failure.
AfterQuota_EagerRotate(index, count) ==
    [index |-> (index + 1) % NumModels, count |-> 0]
AfterQuota_NoReset(index, count) ==
    IF count + 1 >= RotateAt
    THEN [index |-> (index + 1) % NumModels, count |-> count + 1]
    ELSE [index |-> index, count |-> count + 1]
AfterQuota(index, count) ==
    IF count + 1 >= RotateAt
    THEN [index |-> (index + 1) % NumModels, count |-> 0]
    ELSE [index |-> index, count |-> count + 1]

\* The model index and the exhaustion count after a call that ended with
\* TimeoutError: neither except TimeoutError branch touches them.
AfterTimeout_Counted(index, count) == AfterQuota(index, count)
AfterTimeout(index, count) == [index |-> index, count |-> count]

\* with ThreadPoolExecutor(max_workers=1) as executor: leaving the block, by
\* return or by raise, runs executor.shutdown(wait=True), which joins the
\* worker thread. Of the calls that were executing none is left.
ExecutorExit_NoWait(running) == running
ExecutorExit(running) == 0

\* while attempts < attempts_limit (translate_chapter_name).
NameLoopContinues_Unbounded(n) == TRUE
NameLoopContinues(n) == n < AttemptsLimit

\* ------------------------------------------------------------- input data
Books == 1..MaxBooks
ChapterIds == 1..NumChapters

Perms(n) == {p \in [1..n -> 1..n] : \A i, j \in 1..n : i # j => p[i] # p[j]}

\* The "hadiths" arrays a fetched book may hold: n <= MaxId records with ids
\* 1..n in any order, each in some chapter, numbered by position in the book,
\* each with an Arabic text of its own.
HadithLists ==
    UNION {{[k \in 1..n |-> [id |-> p[k], chapterId |-> c[k], idInBook |-> 10 + k,
                              arabic |-> 20 + k]] :
               p \in Perms(n), c \in [1..n -> ChapterIds]} : n \in 0..MaxId}

ChapterList == [k \in 1..NumChapters |-> k]

\* Subsequences of s (order kept).
RECURSIVE SubSeqs(_)
SubSeqs(s) ==
    IF s = <<>> THEN {<<>>}
    ELSE LET rest == SubSeqs(Tail(s))
         IN rest \cup {<<Head(s)>> \o r : r \in rest}

\* translated_hadith["arabic_text"] = hadith.get("arabic", ""): the entry that
\* is stored is the reply with its arabic_text replaced by the record's text.
Reattach_KeepReply(reply, hadith) == reply
Reattach(reply, hadith) == [reply EXCEPT !.arabic_text = hadith.arabic]

\* The entry an earlier run stored for record h.
Entry(h) == Reattach([id |-> h.id, arabic_text |-> h.arabic], h)

\* Contents an earlier run can have left in chapter_<id>.json: the members it
\* translated, in book order (first write) or sorted by id (resume write).
EarlierChapterFiles(hadiths, chapter_id) ==
    LET members == InChapter(hadiths, chapter_id)
        lists == {[k \in 1..Len(s) |-> Entry(s[k])] : s \in SubSeqs(members) \ {<<>>}}
    IN {NoFile} \cup {ListFile(l) : l \in lists}
                \cup {ListFile(SortByIntId(l)) : l \in lists}

\* Contents an earlier run can have left in chapter_names.json.
EarlierNameFiles(b) ==
    {NoNamesFile} \cup {NamesFile(b, s) : s \in SubSeqs(ChapterList)}

\* Contents an earlier run can have left in error_hadiths.json.
EarlierErrorFiles == {NoFile, ListFile(<<11>>)}

\* ------------------------------------------------------------------ state
\* No reply was stored by the latest step.
NoReply == -1

VARIABLES
    pc,                        \* position of the main thread
    dir_book,                  \* the book whose document and directory are in view
    remote,                    \* the hadiths array of that book's remote document
    chapter_names_file,        \* hadiths/<book>/chapter_names.json of that book
    chapter_file,              \* hadiths/<book>/chapter_<id>.json, per chapter id
    error_file,                \* error_hadiths.json when the process has exited; the
                               \*   program never reads it and writes it only on its way
                               \*   out, so what an earlier run left is drawn at the exit
    error_hadith_numbers,      \* the process-wide error list (bound by MainInit)
    book_index,                \* position in BOOKS
    model_index,               \* process_book local
    resource_exhausted_count,  \* process_book / process_hadiths local
    translated_chapters,       \* process_book local
    translated_chapter_ids,    \* process_book local
    chapter_pos,               \* position of either chapter loop
    name_attempts,             \* translate_chapter_name: attempts
    name_count,                \* translate_chapter_name: resource_exhausted_count
    existing_hadiths,          \* process_book local (resume path)
    resume,                    \* TRUE in the branch where the chapter file exists
    hadiths_in_chapter,        \* process_hadiths local
    hadith_pos,                \* process_hadiths: position of the for loop
    attempts,                  \* process_hadiths: attempts
    translated_hadiths,        \* process_hadiths local
    calls,                     \* history: translation calls issued for the current item
    only_quota,                \* history: each of them failed with 429 RESOURCE_EXHAUSTED
    failed_call,               \* history: a call of this process_hadiths invocation failed
    chapter_calls,             \* history: calls issued by this process_hadiths invocation,
                               \*   counted up to one more than its number of records
    submitted,                 \* history: records passed to translate_hadith in this invocation
    book_called,               \* history: a translation call was issued in this process_book
    dir_at_start,              \* history: the book directory when process_book started
    last_fetch,                \* history: how the latest fetch_book_data call ended
    last_outcome,              \* history: how the call issued by the latest step of a
                               \*   translation loop ended ("none": it issued no call)
    in_flight,                 \* calls still executing on a worker thread
    name_start_index,          \* history: model_index when translate_chapter_name was called
    reply_arabic_text          \* history: the arabic_text of the reply that the latest
                               \*   step of process_hadiths stored (NoReply: it stored none)

vars == <<pc, dir_book, remote, chapter_names_file, chapter_file, error_file,
          error_hadith_numbers, book_index, model_index, resource_exhausted_count,
          translated_chapters, translated_chapter_ids, chapter_pos, name_attempts,
          name_count, existing_hadiths, resume, hadiths_in_chapter, hadith_pos,
          attempts, translated_hadiths, calls, only_quota, failed_call,
          chapter_calls, submitted, book_called, dir_at_start, last_fetch,
          last_outcome, in_flight, name_start_index, reply_arabic_text>>

\* One book directory is in view at a time: book_dir is derived from the book's
\* name, the names in BOOKS differ, so a directory that process_book has left
\* is not read or written again. The next book's document and directory come
\* into view when its fetch succeeds; directories of later books start empty.
diskVars == <<dir_book, remote, chapter_names_file, chapter_file>>
nameVars == <<name_attempts, name_count>>
callVars == <<last_outcome, in_flight, name_start_index, reply_arabic_text>>
hadithVars == <<existing_hadiths, resume, hadiths_in_chapter, hadith_pos, attempts,
                translated_hadiths, chapter_calls, submitted, failed_call>>

ExitStates == {"exit_done", "exit_sigint", "exit_network", "exit_crash"}

\* The exit status of the process: sys.exit(0) at the end of the handler,
\* sys.exit(1) in main's except clauses, 0 when the script runs to its end,
\* 1 on an uncaught exception.
ExitCode ==
    CASE pc \in {"exit_done", "exit_sigint"} -> 0
      [] pc \in {"exit_network", "exit_crash"} -> 1
      [] OTHER -> -1

\* book_data["chapters"] and book_data["hadiths"] of the book being processed.
Chapters == ChapterList
AllHadiths == remote
CurChapter == Chapters[chapter_pos]

BookDir == [names |-> chapter_names_file, chapters |-> chapter_file]

Init ==
    /\ pc = "main_start"
    /\ dir_book = 1
    /\ remote \in HadithLists
    /\ chapter_names_file \in EarlierNameFiles(1)
    /\ chapter_file \in [ChapterIds ->
          UNION {EarlierChapterFiles(remote, c) : c \in ChapterIds}]
    /\ \A c \in ChapterIds : chapter_file[c] \in EarlierChapterFiles(remote, c)
    /\ error_file = NoFile
    /\ error_hadith_numbers = <<>>
    /\ book_index = 1
    /\ model_index = 0
    /\ resource_exhausted_count = 0
    /\ translated_chapters = <<>>
    /\ translated_chapter_ids = {}
    /\ chapter_pos = 1
    /\ name_attempts = 0
    /\ name_count = 0
    /\ existing_hadiths = <<>>
    /\ resume = FALSE
    /\ hadiths_in_chapter = <<>>
    /\ hadith_pos = 1
    /\ attempts = 0
    /\ translated_hadiths = <<>>
    /\ calls = 0
    /\ only_quota = TRUE
    /\ failed_call = FALSE
    /\ chapter_calls = 0
    /\ submitted = {}
    /\ book_called = FALSE
    /\ dir_at_start = BookDir
    /\ last_fetch = "none"
    /\ last_outcome = "none"
    /\ in_flight = 0
    /\ name_start_index = 0
    /\ reply_arabic_text = NoReply

\* ------------------------------------------------------------- main script
\* if error_hadith_numbers: write error_hadiths.json (signal_handler).
HandlerSave(list, file) == IF list # <<>> THEN ListFile(list) ELSE file

\* if error_hadith_numbers: write error_hadiths.json (end of the main block).
FinalSave(list, file) == IF list # <<>> THEN ListFile(list) ELSE file

\* for book_name in BOOKS: the step to the next book, or past the loop.
ReturnFromBook ==
    IF book_index < MaxBooks
    THEN /\ book_index' = book_index + 1
         /\ pc' = "book"
    ELSE /\ book_index' = book_index
         /\ pc' = "finish"

\* os.makedirs("hadiths"); error_hadith_numbers = []
MainInit ==
    /\ pc = "main_start"
    /\ error_hadith_numbers' = <<>>
    /\ pc' = "book"
    /\ last_fetch' = last_fetch
    /\ UNCHANGED <<diskVars, error_file, book_index, model_index,
                   resource_exhausted_count, translated_chapters,
                   translated_chapter_ids, chapter_pos, nameVars, hadithVars,
                   calls, only_quota, book_called, dir_at_start, callVars>>

\* After the loop over BOOKS: save the error list, normal completion.
MainFinish ==
    /\ pc = "finish"
    /\ \E earlier \in EarlierErrorFiles :
          error_file' = FinalSave(error_hadith_numbers, earlier)
    /\ pc' = "exit_done"
    /\ last_fetch' = last_fetch
    /\ UNCHANGED <<diskVars, error_hadith_numbers, book_index, model_index,
                   resource_exhausted_count, translated_chapters,
                   translated_chapter_ids, chapter_pos, nameVars, hadithVars,
                   calls, only_quota, book_called, dir_at_start, callVars>>

\* The process has ended inside process_book or between two books: the
\* locals of process_book and of the functions it called are gone. The files,
\* the error list the handler saw and the position in BOOKS are kept.
ProcessGone ==
    /\ model_index' = 0
    /\ resource_exhausted_count' = 0
    /\ translated_chapters' = <<>>
    /\ translated_chapter_ids' = {}
    /\ chapter_pos' = 1
    /\ name_attempts' = 0
    /\ name_count' = 0
    /\ existing_hadiths' = <<>>
    /\ resume' = FALSE
    /\ hadiths_in_chapter' = <<>>
    /\ hadith_pos' = 1
    /\ attempts' = 0
    /\ translated_hadiths' = <<>>
    /\ calls' = 0
    /\ only_quota' = TRUE
    /\ failed_call' = FALSE
    /\ chapter_calls' = 0
    /\ submitted' = {}
    /\ book_called' = FALSE
    /\ dir_at_start' = BookDir
    /\ last_outcome' = "none"
    /\ reply_arabic_text' = NoReply
    /\ in_flight' = 0
    /\ name_start_index' = 0

\* signal_handler: SIGINT at any point of the run. Before the main block has
\* bound error_hadith_numbers the handler raises NameError and the process
\* dies with a traceback.
Interrupt ==
    /\ pc \notin ExitStates
    /\ \E earlier \in EarlierErrorFiles :
          IF pc = "main_start"
          THEN /\ pc' = "exit_crash"
               /\ error_file' = earlier
          ELSE /\ pc' = "exit_sigint"
               /\ error_file' = HandlerSave(error_hadith_numbers, earlier)
    /\ ProcessGone
    /\ UNCHANGED <<diskVars, error_hadith_numbers, book_index, last_fetch>>

\* ------------------------------------------------- process_book: prologue
\* translated_chapters as loaded from chapter_names.json.
LoadChapterNames(file) == IF file.exists THEN file.chapters ELSE <<>>

\* fetch_book_data returned the document: set up the rotation state and load
\* the chapter-name index.
FetchOk ==
    /\ pc = "book"
    /\ IF dir_book = book_index
       THEN UNCHANGED diskVars
       ELSE /\ dir_book' = book_index
            /\ remote' \in HadithLists
            /\ chapter_names_file' = NoNamesFile
            /\ chapter_file' = [c \in ChapterIds |-> NoFile]
    /\ model_index' = 0
    /\ resource_exhausted_count' = 0
    /\ translated_chapters' = LoadChapterNames(chapter_names_file')
    /\ translated_chapter_ids' =
          {translated_chapters'[k] : k \in 1..Len(translated_chapters')}
    /\ chapter_pos' = 1
    /\ name_attempts' = 0
    /\ name_count' = 0
    /\ calls' = 0
    /\ only_quota' = TRUE
    /\ book_called' = FALSE
    /\ dir_at_start' = [names |-> chapter_names_file', chapters |-> chapter_file']
    /\ last_fetch' = "ok"
    /\ last_outcome' = "none"
    /\ reply_arabic_text' = NoReply
    /\ name_start_index' = 0
    /\ pc' = "names"
    /\ UNCHANGED <<error_file, error_hadith_numbers, book_index,
                   hadithVars, in_flight>>

\* fetch_book_data returned None (the document is the JSON value null):
\* process_book returns at once.
FetchNone ==
    /\ pc = "book"
    /\ ReturnFromBook
    /\ last_fetch' = "null"
    /\ UNCHANGED <<diskVars, error_file, error_hadith_numbers, model_index,
                   resource_exhausted_count, translated_chapters,
                   translated_chapter_ids, chapter_pos, nameVars, hadithVars,
                   calls, only_quota, book_called, dir_at_start, callVars>>

\* main, except HTTPError / RequestException: print, run the diagnostic,
\* sys.exit(1). No handler catches SystemExit: the process ends.
NetworkExit_Continue == "book"
NetworkExit == "exit_network"

\* response.json() failed on a malformed document. With requests >= 2.27 the
\* error is requests.exceptions.JSONDecodeError, a RequestException: the first
\* except clause of fetch_book_data re-raises it and main exits. With an
\* older requests it is json.JSONDecodeError: the second clause returns None.
FetchMalformed ==
    /\ pc = "book"
    /\ last_fetch' = "malformed"
    /\ \E json_error_is_request_exception \in BOOLEAN :
          IF json_error_is_request_exception
          THEN /\ pc' = NetworkExit
               /\ book_index' = book_index
               /\ error_file' \in EarlierErrorFiles
          ELSE /\ ReturnFromBook
               /\ error_file' = error_file
    /\ UNCHANGED <<diskVars, error_hadith_numbers, model_index,
                   resource_exhausted_count, translated_chapters,
                   translated_chapter_ids, chapter_pos, nameVars, hadithVars,
                   calls, only_quota, book_called, dir_at_start, callVars>>

\* requests.get or raise_for_status raised a RequestException:
\* fetch_book_data re-raises it and main exits.
FetchError ==
    /\ pc = "book"
    /\ pc' = NetworkExit
    /\ last_fetch' = "transport"
    /\ error_file' \in EarlierErrorFiles
    /\ UNCHANGED <<diskVars, error_hadith_numbers, book_index,
                   model_index, resource_exhausted_count, translated_chapters,
                   translated_chapter_ids, chapter_pos, nameVars, hadithVars,
                   calls, only_quota, book_called, dir_at_start, callVars>>

\* ----------------------------------------- process_book: chapter-name phase
InNames == pc = "names" /\ chapter_pos <= Len(Chapters)

\* The for loop moves to the next chapter; the next translate_chapter_name
\* call starts with attempts = 0 and the caller's resource_exhausted_count.
NextChapterName(index) ==
    /\ chapter_pos' = chapter_pos + 1
    /\ name_attempts' = 0
    /\ name_count' = resource_exhausted_count
    /\ name_start_index' = index
    /\ calls' = 0
    /\ only_quota' = TRUE

nameFrame == <<diskVars, error_file, error_hadith_numbers, book_index,
               resource_exhausted_count, translated_chapter_ids, hadithVars,
               dir_at_start, last_fetch, pc>>

\* if chapter_id in translated_chapter_ids: continue
SkipChapterName ==
    /\ InNames
    /\ CurChapter \in translated_chapter_ids
    /\ NextChapterName(model_index)
    /\ last_outcome' = "none"
    /\ reply_arabic_text' = NoReply
    /\ UNCHANGED <<nameFrame, model_index, translated_chapters, book_called,
                   in_flight>>

\* The call returned a non-empty name: append it to translated_chapters.
NameOk ==
    /\ InNames
    /\ CurChapter \notin translated_chapter_ids
    /\ translated_chapters' = Append(translated_chapters, CurChapter)
    /\ book_called' = TRUE
    /\ last_outcome' = "ok"
    /\ reply_arabic_text' = NoReply
    /\ in_flight' = ExecutorExit(in_flight)
    /\ NextChapterName(model_index)
    /\ UNCHANGED <<nameFrame, model_index>>

\* The call returned text that strips to "": translated_title is falsy.
NameEmpty ==
    /\ InNames
    /\ CurChapter \notin translated_chapter_ids
    /\ book_called' = TRUE
    /\ last_outcome' = "empty"
    /\ reply_arabic_text' = NoReply
    /\ in_flight' = ExecutorExit(in_flight)
    /\ NextChapterName(model_index)
    /\ UNCHANGED <<nameFrame, model_index, translated_chapters>>

\* except TimeoutError: return None, model_index
NameTimeout ==
    /\ InNames
    /\ CurChapter \notin translated_chapter_ids
    /\ book_called' = TRUE
    /\ last_outcome' = "timeout"
    /\ reply_arabic_text' = NoReply
    /\ in_flight' = ExecutorExit(in_flight + 1)
    /\ LET r == AfterTimeout(model_index, name_count)
       IN /\ model_index' = r.index
          /\ NextChapterName(r.index)
    /\ UNCHANGED <<nameFrame, translated_chapters>>

\* except Exception without "429 RESOURCE_EXHAUSTED": return None, model_index
NameOther_Retry ==
    /\ InNames
    /\ CurChapter \notin translated_chapter_ids
    /\ book_called' = TRUE
    /\ last_outcome' = "other"
    /\ reply_arabic_text' = NoReply
    /\ in_flight' = ExecutorExit(in_flight)
    /\ UNCHANGED <<nameFrame, model_index, translated_chapters, chapter_pos,
                   nameVars, name_start_index, calls, only_quota>>
NameOther ==
    /\ InNames
    /\ CurChapter \notin translated_chapter_ids
    /\ book_called' = TRUE
    /\ last_outcome' = "other"
    /\ reply_arabic_text' = NoReply
    /\ in_flight' = ExecutorExit(in_flight)
    /\ NextChapterName(model_index)
    /\ UNCHANGED <<nameFrame, model_index, translated_chapters>>

\* except Exception with "429 RESOURCE_EXHAUSTED": count, rotate at 4,
\* attempts += 1; the loop ends when attempts reaches attempts_limit.
NameQuota ==
    /\ InNames
    /\ CurChapter \notin translated_chapter_ids
    /\ book_called' = TRUE
    /\ last_outcome' = "quota"
    /\ reply_arabic_text' = NoReply
    /\ in_flight' = ExecutorExit(in_flight)
    /\ LET r == AfterQuota(model_index, name_count)
       IN /\ model_index' = r.index
          /\ IF NameLoopContinues(name_attempts + 1)
             THEN /\ name_attempts' = name_attempts + 1
                  /\ name_count' = r.count
                  /\ name_start_index' = name_start_index
                  /\ calls' = calls + 1
                  /\ only_quota' = only_quota
                  /\ chapter_pos' = chapter_pos
             ELSE NextChapterName(r.index)
    /\ UNCHANGED <<nameFrame, translated_chapters>>

\* data_to_save = {"id", "metadata", "chapters": translated_chapters}
NamesToSave_Empty(b, chapters) == NamesFile(b, <<>>)
NamesToSave(b, chapters) == NamesFile(b, chapters)

\* After the chapter-name loop: write chapter_names.json.
SaveChapterNames ==
    /\ pc = "names"
    /\ chapter_pos > Len(Chapters)
    /\ chapter_names_file' = NamesToSave(book_index, translated_chapters)
    /\ chapter_pos' = 1
    /\ last_outcome' = "none"
    /\ reply_arabic_text' = NoReply
    /\ name_start_index' = 0
    /\ pc' = "chapters"
    /\ UNCHANGED <<dir_book, remote, chapter_file, error_file, error_hadith_numbers,
                   book_index, model_index, resource_exhausted_count, translated_chapters,
                   translated_chapter_ids, nameVars, hadithVars, calls, only_quota, book_called,
                   dir_at_start, last_fetch, in_flight>>

\* ---------------------------------------------- process_book: chapter phase
InChapters == pc = "chapters" /\ chapter_pos <= Len(Chapters)

CurFile == chapter_file[CurChapter]

\* process_hadiths is entered with the list `passed` as all_hadiths_data.
EnterProcessHadiths(passed) ==
    /\ hadiths_in_chapter' = InChapter(passed, CurChapter)
    /\ hadith_pos' = 1
    /\ attempts' = 0
    /\ translated_hadiths' = <<>>
    /\ calls' = 0
    /\ only_quota' = TRUE
    /\ chapter_calls' = 0
    /\ submitted' = {}
    /\ failed_call' = FALSE
    /\ pc' = "hadiths"

chapterFrame == <<diskVars, error_file, error_hadith_numbers, book_index,
                  model_index, resource_exhausted_count, translated_chapters,
                  translated_chapter_ids, nameVars, book_called, dir_at_start,
                  last_fetch, callVars>>

\* The chapter file exists and misses some members: translate the missing ones.
ChapterResume ==
    /\ InChapters
    /\ CurFile.exists
    /\ LET missing_hadiths ==
              MissingHadiths(InChapter(AllHadiths, CurChapter), IdsOf(CurFile.entries))
       IN /\ missing_hadiths # <<>>
          /\ EnterProcessHadiths(missing_hadiths)
    /\ existing_hadiths' = CurFile.entries
    /\ resume' = TRUE
    /\ UNCHANGED <<chapterFrame, chapter_pos>>

\* The chapter file exists and holds every member: continue.
ChapterComplete ==
    /\ InChapters
    /\ CurFile.exists
    /\ MissingHadiths(InChapter(AllHadiths, CurChapter), IdsOf(CurFile.entries)) = <<>>
    /\ chapter_pos' = chapter_pos + 1
    /\ UNCHANGED <<chapterFrame, hadithVars, calls, only_quota, pc>>

\* No chapter file: translate the whole membership.
ChapterNew ==
    /\ InChapters
    /\ ~CurFile.exists
    /\ EnterProcessHadiths(InChapter(AllHadiths, CurChapter))
    /\ existing_hadiths' = <<>>
    /\ resume' = FALSE
    /\ UNCHANGED <<chapterFrame, chapter_pos>>

\* The chapter loop is over: process_book returns to the loop over BOOKS.
BookDone ==
    /\ pc = "chapters"
    /\ chapter_pos > Len(Chapters)
    /\ ReturnFromBook
    /\ last_fetch' = last_fetch
    /\ UNCHANGED <<diskVars, error_file, error_hadith_numbers, model_index,
                   resource_exhausted_count, translated_chapters,
                   translated_chapter_ids, chapter_pos, nameVars, hadithVars,
                   calls, only_quota, book_called, dir_at_start, callVars>>

\* ---------------------------------------------------------- process_hadiths
InRecord == pc = "hadiths" /\ hadith_pos <= Len(hadiths_in_chapter)

CurHadith == hadiths_in_chapter[hadith_pos]

\* What the translator may put in the "id" of its reply: the record's id or
\* another number.
ReplyIds(h) == {h.id, MaxId + 1}

\* What the translator may put in the "arabic_text" of its reply: the text it
\* was given or another text.
OtherText == 0
ReplyArabicTexts(h) == {h.arabic, OtherText}

Bump(n) == IF n < MaxCalls THEN n + 1 ELSE n

\* One translate_hadith call is issued for the current record.
IssueCall ==
    /\ chapter_calls' = IF chapter_calls <= Len(hadiths_in_chapter)
                        THEN chapter_calls + 1 ELSE chapter_calls
    /\ submitted' = submitted \cup {CurHadith}
    /\ book_called' = TRUE

\* The retry loop is left: resource_exhausted_count = 0 and the for loop
\* moves to the next record.
NextRecord_KeepCount ==
    /\ hadith_pos' = hadith_pos + 1
    /\ attempts' = 0
    /\ resource_exhausted_count' = resource_exhausted_count
    /\ calls' = 0
    /\ only_quota' = TRUE
NextRecord ==
    /\ hadith_pos' = hadith_pos + 1
    /\ attempts' = 0
    /\ resource_exhausted_count' = 0
    /\ calls' = 0
    /\ only_quota' = TRUE

\* The retry loop goes round again for the same record.
SameRecord ==
    /\ hadith_pos' = hadith_pos
    /\ calls' = Bump(calls)

hadithFrame == <<diskVars, error_file, book_index, translated_chapters,
                 translated_chapter_ids, chapter_pos, nameVars, existing_hadiths,
                 resume, hadiths_in_chapter, dir_at_start, last_fetch,
                 name_start_index, pc>>

\* The reply parsed to a non-empty object: one entry is appended.
HadithOk ==
    /\ InRecord
    /\ \E reply_id \in ReplyIds(CurHadith),
          text \in ReplyArabicTexts(CurHadith) :
          /\ translated_hadiths' =
                 Append(translated_hadiths,
                        Reattach([id |-> reply_id, arabic_text |-> text], CurHadith))
          /\ reply_arabic_text' = text
    /\ IssueCall
    /\ last_outcome' = "ok"
    /\ in_flight' = ExecutorExit(in_flight)
    /\ failed_call' = failed_call
    /\ NextRecord
    /\ UNCHANGED <<hadithFrame, error_hadith_numbers, model_index>>

\* The reply parsed to a truthy value that is not an object (a list, a string,
\* a number): translated_hadith["arabic_text"] = ... raises TypeError, which
\* no handler catches. Nothing is appended or saved and the process dies with
\* a traceback.
HadithNotObject ==
    /\ InRecord
    /\ pc' = "exit_crash"
    /\ \E earlier \in EarlierErrorFiles : error_file' = earlier
    /\ ProcessGone
    /\ UNCHANGED <<diskVars, error_hadith_numbers, book_index, last_fetch>>

\* The reply parsed to a value that is not None but falsy ({}): the loop is
\* left and `if translated_hadith` takes the failure branch.
HadithFalsy ==
    /\ InRecord
    /\ error_hadith_numbers' = Append(error_hadith_numbers, CurHadith.idInBook)
    /\ IssueCall
    /\ last_outcome' = "falsy"
    /\ reply_arabic_text' = NoReply
    /\ in_flight' = ExecutorExit(in_flight)
    /\ failed_call' = TRUE
    /\ NextRecord
    /\ UNCHANGED <<hadithFrame, translated_hadiths, model_index>>

\* attempts after a call that returned None.
AfterNone_NoCount(n) == n
AfterNone(n) == n + 1

\* translate_hadith returned None (JSONDecodeError): attempts += 1; with
\* attempts = 5 the loop is left and the record goes to the error list.
HadithUnparseable ==
    /\ InRecord
    /\ IssueCall
    /\ last_outcome' = "unparseable"
    /\ reply_arabic_text' = NoReply
    /\ in_flight' = ExecutorExit(in_flight)
    /\ failed_call' = TRUE
    /\ IF AfterNone(attempts) < RecordAttempts
       THEN /\ attempts' = AfterNone(attempts)
            /\ SameRecord
            /\ only_quota' = FALSE
            /\ UNCHANGED <<error_hadith_numbers, resource_exhausted_count>>
       ELSE /\ error_hadith_numbers' =
                  Append(error_hadith_numbers, CurHadith.idInBook)
            /\ NextRecord
    /\ UNCHANGED <<hadithFrame, translated_hadiths, model_index>>

\* except TimeoutError: continue (attempts is not incremented).
HadithTimeout ==
    /\ InRecord
    /\ IssueCall
    /\ last_outcome' = "timeout"
    /\ reply_arabic_text' = NoReply
    /\ in_flight' = ExecutorExit(in_flight + 1)
    /\ failed_call' = TRUE
    /\ SameRecord
    /\ only_quota' = FALSE
    /\ LET r == AfterTimeout(model_index, resource_exhausted_count)
       IN /\ model_index' = r.index
          /\ resource_exhausted_count' = r.count
    /\ UNCHANGED <<hadithFrame, error_hadith_numbers, translated_hadiths, attempts>>

\* except Exception with "429 RESOURCE_EXHAUSTED": count, rotate at 4,
\* continue (attempts is not incremented).
HadithQuota ==
    /\ InRecord
    /\ IssueCall
    /\ last_outcome' = "quota"
    /\ reply_arabic_text' = NoReply
    /\ in_flight' = ExecutorExit(in_flight)
    /\ failed_call' = TRUE
    /\ SameRecord
    /\ only_quota' = only_quota
    /\ LET r == AfterQuota(model_index, resource_exhausted_count)
       IN /\ model_index' = r.index
          /\ resource_exhausted_count' = r.count
    /\ UNCHANGED <<hadithFrame, error_hadith_numbers, translated_hadiths, attempts>>

\* except Exception, any other message: continue (attempts is not incremented).
HadithOther ==
    /\ InRecord
    /\ IssueCall
    /\ last_outcome' = "other"
    /\ reply_arabic_text' = NoReply
    /\ in_flight' = ExecutorExit(in_flight)
    /\ failed_call' = TRUE
    /\ SameRecord
    /\ only_quota' = FALSE
    /\ UNCHANGED <<hadithFrame, error_hadith_numbers, translated_hadiths, model_index,
                   resource_exhausted_count, attempts>>

\* ------------------------------- process_book: after process_hadiths returns
AfterRecords == pc = "hadiths" /\ hadith_pos > Len(hadiths_in_chapter)

\* The for loop of the chapter phase moves on; the locals of the finished
\* chapter are dead.
NextChapter ==
    /\ chapter_pos' = chapter_pos + 1
    /\ pc' = "chapters"
    /\ existing_hadiths' = <<>>
    /\ resume' = FALSE
    /\ hadiths_in_chapter' = <<>>
    /\ hadith_pos' = 1
    /\ attempts' = 0
    /\ translated_hadiths' = <<>>
    /\ chapter_calls' = 0
    /\ submitted' = {}
    /\ failed_call' = FALSE
    /\ last_outcome' = "none"
    /\ reply_arabic_text' = NoReply

saveFrame == <<dir_book, remote, chapter_names_file, error_file, error_hadith_numbers,
               book_index, model_index, resource_exhausted_count,
               translated_chapters, translated_chapter_ids, nameVars, calls,
               only_quota, book_called, dir_at_start, last_fetch, in_flight,
               name_start_index>>

\* Resume path, some record translated: extend, sort, rewrite the file.
WriteMergedChapter ==
    /\ AfterRecords
    /\ resume
    /\ translated_hadiths # <<>>
    /\ chapter_file' = [chapter_file EXCEPT ![CurChapter] =
                           ListFile(MergeIntoExisting(existing_hadiths,
                                                      translated_hadiths))]
    /\ NextChapter
    /\ UNCHANGED saveFrame

\* No chapter file, some record translated: write translated_hadiths.
WriteNewChapter ==
    /\ AfterRecords
    /\ ~resume
    /\ translated_hadiths # <<>>
    /\ chapter_file' = [chapter_file EXCEPT ![CurChapter] =
                           ListFile(translated_hadiths)]
    /\ NextChapter
    /\ UNCHANGED saveFrame

\* successful_translations == 0: process_hadiths returned None, nothing is
\* written.
NoneTranslated_WritesEmpty ==
    /\ AfterRecords
    /\ translated_hadiths = <<>>
    /\ chapter_file' = IF resume THEN chapter_file
                       ELSE [chapter_file EXCEPT ![CurChapter] = ListFile(<<>>)]
    /\ NextChapter
    /\ UNCHANGED saveFrame
NoneTranslated ==
    /\ AfterRecords
    /\ translated_hadiths = <<>>
    /\ NextChapter
    /\ UNCHANGED <<saveFrame, chapter_file>>

\* -------------------------------------------------------------- behaviours
Next ==
    \/ MainInit
    \/ MainFinish
    \/ Interrupt
    \/ FetchOk
    \/ FetchNone
    \/ FetchMalformed
    \/ FetchError
    \/ SkipChapterName
    \/ NameOk
    \/ NameEmpty
    \/ NameTimeout
    \/ NameOther
    \/ NameQuota
    \/ SaveChapterNames
    \/ ChapterResume
    \/ ChapterComplete
    \/ ChapterNew
    \/ BookDone
    \/ HadithOk
    \/ HadithNotObject
    \/ HadithFalsy
    \/ HadithUnparseable
    \/ HadithTimeout
    \/ HadithQuota
    \/ HadithOther
    \/ WriteMergedChapter
    \/ WriteNewChapter
    \/ NoneTranslated

Spec == Init /\ [][Next]_vars

\* The steps of the main thread: every step but the user's interrupt. A call
\* on the worker returns, fails or times out after 300 seconds, and every
\* sleep ends, so the main thread keeps taking steps until the process exits.
ProgramStep ==
    \/ MainInit \/ MainFinish \/ FetchOk \/ FetchNone \/ FetchMalformed
    \/ FetchError
    \/ SkipChapterName \/ NameOk \/ NameEmpty \/ NameTimeout \/ NameOther
    \/ NameQuota \/ SaveChapterNames \/ ChapterResume \/ ChapterComplete
    \/ ChapterNew \/ BookDone \/ HadithOk \/ HadithNotObject \/ HadithFalsy
    \/ HadithUnparseable
    \/ HadithTimeout \/ HadithQuota \/ HadithOther \/ WriteMergedChapter
    \/ WriteNewChapter \/ NoneTranslated

\* A resumed run: the first book holds two records of chapter 1 with ids not
\* in book order, an earlier run left the name of chapter 1 and a file for
\* chapter 1 (with one of the records or both).
\* The later books are as in Init.
ResumedInit ==
    /\ Init
    /\ remote = <<[id |-> 2, chapterId |-> 1, idInBook |-> 11, arabic |-> 21],
                  [id |-> 1, chapterId |-> 1, idInBook |-> 12, arabic |-> 22]>>
    /\ chapter_names_file = NamesFile(1, <<1>>)
    /\ chapter_file[1].exists

\* The runs of a resumed run in which the main thread keeps taking steps.
FairSpec == ResumedInit /\ [][Next]_vars /\ WF_vars(ProgramStep)

\* ------------------------------------------------------------------ claims
Range(s) == {s[k] : k \in 1..Len(s)}

\* The members of chapter c in the fetched book.
Members(c) == Range(InChapter(AllHadiths, c))

\* C1: in the branch where chapter_<id>.json exists, the records passed to
\* translate_hadith are members of the chapter whose id is not stored in the
\* file, and once process_hadiths has gone through its list they are exactly
\* those members.
C1_ResumeSubmitsMissing ==
    (pc = "hadiths" /\ resume) =>
        LET missing == {h \in Members(CurChapter) : h.id \notin IdsOf(CurFile.entries)}
        IN /\ submitted \subseteq missing
           /\ AfterRecords => submitted = missing

\* A resume pass is over in a chapter whose file held one member and missed
\* another.
C1_Witness ==
    /\ pc = "hadiths"
    /\ resume
    /\ AfterRecords
    /\ submitted # {}
    /\ \E h \in Members(CurChapter) : h.id \in IdsOf(CurFile.entries)

\* C2: at most 5 translation calls are issued for one record, whatever the
\* outcomes of the calls.
C2_AtMostFiveCalls == pc = "hadiths" => calls <= RecordAttempts

\* C3: the processing of every record of a work-set eventually finishes (or
\* the process exits), and the step that finishes it either appends one entry
\* to translated_hadiths or appends the record's idInBook once to the error
\* list, never both.
C3_RecordFinishes ==
    /\ \A k \in 1..MaxId :
          (pc = "hadiths" /\ hadith_pos = k /\ k <= Len(hadiths_in_chapter))
              ~> ~(pc = "hadiths" /\ hadith_pos = k)
    /\ [][(InRecord /\ pc' = "hadiths" /\ hadith_pos' = hadith_pos + 1) =>
             \/ /\ Len(translated_hadiths') = Len(translated_hadiths) + 1
                /\ SubSeq(translated_hadiths', 1, Len(translated_hadiths))
                       = translated_hadiths
                /\ error_hadith_numbers' = error_hadith_numbers
             \/ /\ translated_hadiths' = translated_hadiths
                /\ error_hadith_numbers' =
                       Append(error_hadith_numbers, CurHadith.idInBook)]_vars

\* C4: while every call issued for the current item has failed with quota
\* exhaustion (the count was 0 when the item started), the k-th such failure
\* leaves the exhaustion count at k mod 4, and the model index moves, by one
\* step (index + 1) mod 8, exactly at every fourth failure; in record
\* translation and in chapter-name translation.
C4_FourQuotaFailuresRotateOnce ==
    [][/\ (/\ pc = "hadiths" /\ pc' = "hadiths" /\ hadith_pos' = hadith_pos
           /\ only_quota' /\ calls' = calls + 1)
          => /\ resource_exhausted_count' = calls' % RotateAt
             /\ model_index' = IF calls' % RotateAt = 0
                               THEN (model_index + 1) % NumModels
                               ELSE model_index
       /\ (/\ pc = "names" /\ pc' = "names" /\ chapter_pos' = chapter_pos
           /\ only_quota' /\ calls' = calls + 1)
          => /\ name_count' = calls' % RotateAt
             /\ model_index' = IF calls' % RotateAt = 0
                               THEN (model_index + 1) % NumModels
                               ELSE model_index]_vars

\* The fourth consecutive quota failure of a record has just been handled.
C4_Witness ==
    /\ InRecord
    /\ only_quota
    /\ calls = RotateAt
    /\ resource_exhausted_count = 0
    /\ model_index = 1

\* Every record of the work-set was appended with its own id.
AllEchoed ==
    /\ Len(translated_hadiths) = Len(hadiths_in_chapter)
    /\ \A k \in 1..Len(hadiths_in_chapter) :
          translated_hadiths[k].id = hadiths_in_chapter[k].id

\* The ids of a list of entries, in the order of the list.
IdList(entries) == [k \in 1..Len(entries) |-> entries[k].id]

IsSortedById(entries) ==
    \A i, j \in 1..Len(entries) : i < j => entries[i].id <= entries[j].id

\* C5: when the resume pass of a chapter ends with every missing record
\* translated under its own id, the step that returns to the chapter loop
\* rewrites the file so that it keeps every entry it held,
\* gains one entry per missing record, covers all member ids and is in
\* ascending id order; and if no call failed, one call per missing record was
\* issued.
C5_ResumeMergesSorted ==
    [][(AfterRecords /\ resume /\ AllEchoed /\ pc' = "chapters") =>
          LET old == CurFile.entries
              new == chapter_file'[CurChapter].entries
          IN /\ chapter_file'[CurChapter].exists
             /\ Range(old) \subseteq Range(new)
             /\ Len(new) = Len(old) + Len(hadiths_in_chapter)
             /\ {h.id : h \in Members(CurChapter)} \subseteq IdsOf(new)
             /\ IsSortedById(new)
             /\ ~failed_call => chapter_calls = Len(hadiths_in_chapter)]_vars

\* A chapter file that held the entry of id 2 alone now holds ids 1 and 2.
C5_Witness ==
    /\ pc = "chapters"
    /\ \E c \in ChapterIds :
          /\ dir_at_start.chapters[c].exists
          /\ IdList(dir_at_start.chapters[c].entries) = <<2>>
          /\ chapter_file[c].exists
          /\ IdList(chapter_file[c].entries) = <<1, 2>>

\* C6: the ids stored in every chapter file are ids of members of the
\* chapter, and when process_book has gone through all chapters with the error
\* list empty they are exactly the ids of the members.
C6_StoredIdsAreMembers ==
    /\ \A c \in ChapterIds :
          IdsOf(chapter_file[c].entries) \subseteq {h.id : h \in Members(c)}
    /\ (pc = "chapters" /\ chapter_pos > Len(Chapters) /\ error_hadith_numbers = <<>>)
          => \A c \in ChapterIds :
                IdsOf(chapter_file[c].entries) = {h.id : h \in Members(c)}

\* The chapter-name index lists every chapter and every chapter file holds
\* the id of every member of its chapter.
FullyTranslated(dir) ==
    /\ dir.names.exists
    /\ Range(Chapters) \subseteq Range(dir.names.chapters)
    /\ \A c \in ChapterIds :
          {h.id : h \in Members(c)} \subseteq IdsOf(dir.chapters[c].entries)

InProcessBook == pc \in {"names", "chapters", "hadiths"}

\* C7: process_book on a fully translated book issues no translation call
\* and leaves chapter_names.json and every chapter file with the content they
\* had when it started.
C7_FullyTranslatedIsIdempotent ==
    (InProcessBook /\ FullyTranslated(dir_at_start)) =>
        /\ ~book_called
        /\ BookDir = dir_at_start

\* process_book has gone through a fully translated book with two records.
C7_Witness ==
    /\ pc = "chapters"
    /\ chapter_pos > Len(Chapters)
    /\ FullyTranslated(dir_at_start)
    /\ Len(AllHadiths) = 2

\* C8: during the chapter-name phase chapter_names.json lists every chapter
\* name translated so far.
C8_IndexSavedAfterEachName ==
    pc = "names" =>
        /\ translated_chapters # <<>> => chapter_names_file.exists
        /\ Range(translated_chapters) \subseteq Range(chapter_names_file.chapters)

\* C9: when the process exits through the SIGINT handler, error_hadiths.json
\* holds exactly the error list (a missing file counts as the empty list).
C9_InterruptFlushesErrorList ==
    pc = "exit_sigint" => error_file.entries = error_hadith_numbers

\* C10: when the process exits on a fetch failure with a non-empty error
\* list, error_hadiths.json holds that list.
C10_NetworkExitFlushesErrorList ==
    (pc = "exit_network" /\ error_hadith_numbers # <<>>)
        => error_file = ListFile(error_hadith_numbers)

\* C11: when process_book starts on a book after the first, the model index
\* and the exhaustion count it starts with are the ones the previous book
\* ended with.
C11_RotationStateCarriedAcrossBooks ==
    [][(pc = "book" /\ pc' = "names" /\ book_index > 1) =>
          /\ model_index' = model_index
          /\ resource_exhausted_count' = resource_exhausted_count]_vars

C13_WrittenChapterFilesSorted ==
    [][\A c \in ChapterIds :
          (pc = "hadiths" /\ AllEchoed /\ chapter_file'[c] # chapter_file[c])
              => IsSortedById(chapter_file'[c].entries)]_vars

\* C14: a fetch that ends in a transport failure takes the process to the
\* exit with status 1 that follows the diagnostic, with the position in BOOKS
\* and the files of the books in view unchanged, and no step follows that
\* exit.
C14_TransportFailureEndsRun ==
    [][/\ (pc = "book" /\ last_fetch' = "transport")
          => /\ pc' = "exit_network"
             /\ ExitCode' = 1
             /\ UNCHANGED <<diskVars, book_index>>
       /\ pc = "exit_network" => UNCHANGED vars]_vars

\* The fetch of the second book failed after the first book had a chapter
\* file written in this run.
C14_Witness ==
    /\ pc = "exit_network"
    /\ last_fetch = "transport"
    /\ book_index = 2
    /\ \E c \in ChapterIds :
          chapter_file[c].exists /\ ~dir_at_start.chapters[c].exists

\* C15: a fetch that meets a malformed document leaves the files as they
\* are and the run goes on to the next book (or to the end of the list).
C15_MalformedDocumentSkipsBook ==
    [][(pc = "book" /\ last_fetch' = "malformed" /\ pc' # "exit_sigint") =>
          /\ pc' = IF book_index < MaxBooks THEN "book" ELSE "finish"
          /\ book_index' = IF book_index < MaxBooks THEN book_index + 1
                            ELSE book_index
          /\ UNCHANGED <<diskVars, book_called>>]_vars

\* C16: a call for a record that times out ends the record: the loop moves
\* to the next record, the record's number goes to the error list and the
\* model index and the exhaustion count stay as they were.
C16_TimeoutEndsRecord ==
    [][(InRecord /\ pc' = "hadiths" /\ last_outcome' = "timeout") =>
          /\ hadith_pos' = hadith_pos + 1
          /\ error_hadith_numbers' =
                 Append(error_hadith_numbers, CurHadith.idInBook)
          /\ model_index' = model_index
          /\ resource_exhausted_count' = resource_exhausted_count]_vars

\* C17: a step of record translation or of chapter-name translation whose
\* call timed out leaves the model index and the exhaustion count of
\* process_book as they were; in record translation that count is the one
\* the retry goes on with, in chapter-name translation the next name starts
\* from it.
C17_TimeoutKeepsRotationState ==
    [][(/\ \/ pc = "hadiths" /\ pc' = "hadiths"
           \/ pc = "names" /\ pc' = "names"
        /\ last_outcome' = "timeout") =>
          /\ model_index' = model_index
          /\ resource_exhausted_count' = resource_exhausted_count
          /\ pc = "names" => name_count' = resource_exhausted_count]_vars

\* A call for a record has timed out after six quota failures had moved
\* the model index to 1 and the count to 2.
C17_Witness ==
    /\ InRecord
    /\ last_outcome = "timeout"
    /\ model_index = 1
    /\ resource_exhausted_count = 2

\* C18: fewer than 20 calls have been issued for the chapter name in
\* translation whenever another one can be issued; and when the 20th call
\* fails with quota exhaustion, as the 19 before it did, the name is given up
\* (nothing is appended to translated_chapters) with the model index 20 / 4 = 5
\* steps, cyclically, past the one the translation started with.
C18_NameCallsBounded ==
    /\ [](pc = "names" => calls < AttemptsLimit)
    /\ [][(/\ InNames /\ pc' = "names"
            /\ calls = AttemptsLimit - 1
            /\ last_outcome' = "quota") =>
              /\ chapter_pos' = chapter_pos + 1
              /\ translated_chapters' = translated_chapters
              /\ model_index' =
                     (name_start_index + (AttemptsLimit \div RotateAt)) % NumModels]_vars

\* The name of the first chapter was given up after 20 quota failures.
C18_Witness ==
    /\ pc = "names"
    /\ chapter_pos = 2
    /\ name_attempts = 0
    /\ last_outcome = "quota"
    /\ model_index = 5

\* C19: a chapter-name call that times out or fails with an error other than
\* quota exhaustion is the last call for that name: the loop moves to the
\* next chapter with the model index, translated_chapters and the error list
\* as they were.
C19_NameAbortsOnNonQuotaFailure ==
    [][(InNames /\ pc' = "names" /\ last_outcome' \in {"timeout", "other"}) =>
          /\ chapter_pos' = chapter_pos + 1
          /\ name_attempts' = 0
          /\ model_index' = model_index
          /\ translated_chapters' = translated_chapters
          /\ error_hadith_numbers' = error_hadith_numbers]_vars

\* The name of the first chapter was given up on an error other than quota
\* exhaustion, met on the second model.
C19_Witness ==
    /\ pc = "names"
    /\ chapter_pos = 2
    /\ last_outcome = "other"
    /\ model_index = 1
    /\ translated_chapters = <<>>
    /\ error_hadith_numbers = <<>>

\* C20: an unparseable reply for a record leaves the model index as it was;
\* each of the first four adds one to attempts and is followed by a retry of
\* the same record with the exhaustion count as it was, the fifth appends the
\* record's number to the error list and the loop moves to the next record.
C20_UnparseableCountsAsAttempt ==
    [][(InRecord /\ pc' = "hadiths" /\ last_outcome' = "unparseable") =>
          /\ model_index' = model_index
          /\ translated_hadiths' = translated_hadiths
          /\ IF attempts + 1 < RecordAttempts
             THEN /\ attempts' = attempts + 1
                  /\ hadith_pos' = hadith_pos
                  /\ resource_exhausted_count' = resource_exhausted_count
                  /\ error_hadith_numbers' = error_hadith_numbers
             ELSE /\ hadith_pos' = hadith_pos + 1
                  /\ error_hadith_numbers' =
                         Append(error_hadith_numbers, CurHadith.idInBook)]_vars

\* The first record of a work-set was given up on its fifth unparseable
\* reply, met on the second model.
C20_Witness ==
    /\ pc = "hadiths"
    /\ hadith_pos = 2
    /\ last_outcome = "unparseable"
    /\ model_index = 1
    /\ error_hadith_numbers = <<hadiths_in_chapter[1].idInBook>>

\* C21: every step of process_hadiths that appends an entry to
\* translated_hadiths appends one entry, after the ones already there, whose
\* arabic_text is the arabic field of the record the call was issued for,
\* whatever arabic_text the reply held.
C21_ArabicTextReattached ==
    [][(InRecord /\ pc' = "hadiths" /\ translated_hadiths' # translated_hadiths) =>
          /\ Len(translated_hadiths') = Len(translated_hadiths) + 1
          /\ SubSeq(translated_hadiths', 1, Len(translated_hadiths))
                 = translated_hadiths
          /\ translated_hadiths'[Len(translated_hadiths')].arabic_text
                 = CurHadith.arabic]_vars

\* The first record of a work-set was appended from a reply that carried
\* another id and another arabic_text: the entry keeps that id and holds the
\* record's Arabic text.
C21_Witness ==
    /\ pc = "hadiths"
    /\ hadith_pos = 2
    /\ last_outcome = "ok"
    /\ reply_arabic_text = OtherText
    /\ translated_hadiths =
           <<[id |-> MaxId + 1, arabic_text |-> hadiths_in_chapter[1].arabic]>>

\* The exhaustion count the next call of the running loop is made with.
CountInUse == IF pc = "names" THEN name_count ELSE resource_exhausted_count

\* C22: the model index is always an index of the model list; from one step
\* of process_book to the next it changes only on a quota failure that brings
\* the exhaustion count to 4, and then by the step (index + 1) mod 8; a quota
\* failure that brings the count to 4 always takes that step.
C22_IndexMovesOnlyOnFourthQuota ==
    /\ [](model_index \in 0..(NumModels - 1))
    /\ [][(InProcessBook /\ pc' \in {"names", "chapters", "hadiths"}) =>
             /\ model_index' # model_index =>
                   /\ last_outcome' = "quota"
                   /\ CountInUse + 1 = RotateAt
                   /\ model_index' = (model_index + 1) % NumModels
             /\ (last_outcome' = "quota" /\ CountInUse + 1 = RotateAt) =>
                   model_index' = (model_index + 1) % NumModels]_vars

\* A quota failure of a record has moved the index on for the second time in
\* this book.
C22_Witness ==
    /\ InRecord
    /\ last_outcome = "quota"
    /\ model_index = 2
    /\ resource_exhausted_count = 0
    /\ calls = MaxCalls

\* C23: the exhaustion count a translation call is issued with is between 0
\* and 3, and it is 0 for the first call of every chapter name and of every
\* record.
C23_CountStartsAtZero ==
    /\ InNames => name_count \in 0..(RotateAt - 1)
    /\ InRecord => resource_exhausted_count \in 0..(RotateAt - 1)
    /\ (InNames /\ calls = 0) => name_count = 0
    /\ (InRecord /\ calls = 0) => resource_exhausted_count = 0

\* The second record of a work-set starts after the first was translated on
\* the second model: quota failures were counted before it in this book.
C23_Witness ==
    /\ InRecord
    /\ hadith_pos = 2
    /\ calls = 0
    /\ last_outcome = "ok"
    /\ model_index = 1
    /\ resource_exhausted_count = 0

\* C24: an existing chapter file never holds an empty list; and the step of
\* process_book that follows a process_hadiths call in which no record was
\* translated, or that finds no record missing from an existing file, leaves
\* every chapter file as it was and moves to the next chapter.
C24_NothingTranslatedWritesNothing ==
    /\ [](\A c \in ChapterIds :
             chapter_file[c].exists => chapter_file[c].entries # <<>>)
    /\ [][(/\ \/ AfterRecords /\ translated_hadiths = <<>>
              \/ /\ InChapters
                 /\ CurFile.exists
                 /\ MissingHadiths(InChapter(AllHadiths, CurChapter),
                                   IdsOf(CurFile.entries)) = <<>>
           /\ pc' = "chapters") =>
             /\ chapter_file' = chapter_file
             /\ chapter_names_file' = chapter_names_file
             /\ chapter_pos' = chapter_pos + 1]_vars

\* Both records of the first book are in chapter 1 and both failed: the
\* chapter loop is at chapter 2 and chapter 1 has no file.
C24_Witness ==
    /\ pc = "chapters"
    /\ book_index = 1
    /\ chapter_pos = 2
    /\ ~chapter_file[1].exists
    /\ Len(error_hadith_numbers) = 2

====
